---- MODULE Spec2Model ----
(***************************************************************************)
(* Model of the BestRX submission pipeline of the pharmacy website:        *)
(* the response/error normaliser of src/lib/bestrx.ts (pure functions) and *)
(* the refill / transfer submission hooks (useRefillFormSubmission,        *)
(* useTransferFormSubmission) that sequence the primary BestRX call with   *)
(* the secondary Supabase audit RPC.                                       *)
(***************************************************************************)
EXTENDS Integers, Sequences, FiniteSets, TLC

VARIABLES
    hook,          \* which hook instance is mounted: "refill" or "transfer"
    env,           \* process.env: the BESTRX_* credentials
    status,        \* the hook's useState<SubmissionStatus>
    error,         \* the hook's useState<string | null>
    pc,            \* position of the current invocation of submit
    data,          \* the form passed to the current invocation
    response,      \* what the primary fetch produced (while being interpreted)
    result,        \* what submitRefillToBestRX / submitTransferToBestRX returned
    primaryCalls,  \* fetch calls issued by the current invocation
    auditCalls,    \* supabase.rpc calls issued by the current invocation
    auditArgs,     \* arguments of the audit RPC issued by the current invocation
    auditOutcome,  \* how the audit RPC ended: "none", "ok", "error_value", "throws"
    promise,       \* the promise returned by the current invocation of submit
    log,           \* console output of the current invocation
    submits,       \* number of invocations of submit so far
    call,          \* the last direct call of an exported pure function
    isOpen,        \* the modal's isOpen prop
    modalForm,     \* the modal's formData state: "empty", "invalid" or "valid"
    modalStatus,   \* the modal's own status state
    errors,        \* whether the modal's errors object has a key
    errorMessage,  \* the modal's errorMessage state
    timers,        \* reset callbacks scheduled with setTimeout and not yet run
    invocations,   \* the invocations of submit made by the modal, in order
    setBy          \* index of the invocation that last wrote the hook's status

hookVars == <<hook, env, status, error, pc, data, response, result, primaryCalls,
              auditCalls, auditArgs, auditOutcome, promise, log, submits>>

modalVars == <<isOpen, modalForm, modalStatus, errors, errorMessage, timers,
               invocations, setBy>>

vars == <<hookVars, call, modalVars>>

----------------------------------------------------------------------------
(* Bounds *)

\* longest RxInRefillResponse array in a response body
MaxItems == 2
\* invocations of submit on the one hook instance
MaxSubmits == 2
\* longest free text typed into a form field
MaxText == 4
\* reset callbacks pending at one time
MaxTimers == 2

----------------------------------------------------------------------------
(* JavaScript values: a type tag and the value's String() form *)

JUndef == [t |-> "undefined", v |-> "undefined"]
JNull == [t |-> "null", v |-> "null"]
JStr(s) == [t |-> "string", v |-> s]
JBool(b) == [t |-> "boolean", v |-> IF b THEN "true" ELSE "false"]
JFun(s) == [t |-> "function", v |-> s]
\* a string whose characters matter: v is the sequence of its characters
JText(cs) == [t |-> "text", v |-> cs]

\* ToBoolean: what `!x`, `x || y` and `if (x)` test
Truthy(j) ==
    CASE j.t = "undefined" -> FALSE
      [] j.t = "null" -> FALSE
      [] j.t = "boolean" -> j.v = "true"
      [] j.t = "string" -> j.v # ""
      [] j.t = "text" -> Len(j.v) > 0
      [] OTHER -> TRUE

\* String(x)
String(j) == j.v

\* x || y
Or(x, y) == IF Truthy(x) THEN x ELSE y

----------------------------------------------------------------------------
(* String methods, on sequences of characters *)

\* what String.prototype.trim removes
Whitespace == {" ", "\t", "\n"}

\* what the regular expression class \d matches
Digits == {"0", "1", "2", "3", "4", "5", "6", "7", "8", "9"}

\* s.split(sep) for a one-character separator: "" splits into [""]
RECURSIVE Split(_, _)
Split(s, sep) ==
    IF \A i \in DOMAIN s : s[i] # sep
    THEN <<s>>
    ELSE LET i == CHOOSE k \in DOMAIN s : s[k] = sep /\ \A j \in 1..(k - 1) : s[j] # sep
         IN  <<SubSeq(s, 1, i - 1)>> \o Split(SubSeq(s, i + 1, Len(s)), sep)

RECURSIVE TrimStart(_)
TrimStart(s) ==
    IF s # <<>> /\ Head(s) \in Whitespace THEN TrimStart(Tail(s)) ELSE s

RECURSIVE TrimEnd(_)
TrimEnd(s) ==
    IF s # <<>> /\ s[Len(s)] \in Whitespace THEN TrimEnd(SubSeq(s, 1, Len(s) - 1)) ELSE s

\* s.trim()
Trim(s) == TrimEnd(TrimStart(s))

\* array.map(x => x.trim())
MapTrim(tokens) == [i \in DOMAIN tokens |-> Trim(tokens[i])]

\* array.filter(x => x.length > 0)
NonEmpty(t) == Len(t) > 0
FilterNonEmpty(tokens) == SelectSeq(tokens, NonEmpty)

\* array.pop() of a non-empty array
Pop(tokens) == tokens[Len(tokens)]

----------------------------------------------------------------------------
(* Payload mapper *)

IsDigit(c) == c \in Digits

\* variant of formatPhoneForBestRX: the regular expression has no g flag
RECURSIVE formatPhoneFirstMatchOnly(_)
formatPhoneFirstMatchOnly(phone) ==
    IF phone = <<>> THEN <<>>
    ELSE IF ~IsDigit(Head(phone)) THEN Tail(phone)
    ELSE <<Head(phone)>> \o formatPhoneFirstMatchOnly(Tail(phone))

\* phone.replace(/\D/g, '')
formatPhoneForBestRX(phone) == SelectSeq(phone, IsDigit)

\* variant of CommaTokens: the empty tokens are kept
CommaTokensUnfiltered(text) == MapTrim(Split(text, ","))

\* text.split(',').map(trim).filter(non-empty)
CommaTokens(text) == FilterNonEmpty(MapTrim(Split(text, ",")))

\* medications[index] || ''
MedicationAt(medications, index) ==
    IF index \in DOMAIN medications /\ medications[index] # <<>>
    THEN medications[index] ELSE <<>>

\* formData.patientName.split(' ').pop() || formData.patientName
LastNameOf(patientName) ==
    LET last == Pop(Split(patientName, " "))
    IN  IF last # <<>> THEN last ELSE patientName

buildRefillRequestPayload(formData, pharmacyNumber, apiKey, username) ==
    LET rxNumbers == CommaTokens(formData.prescriptionNumbers.v)
        medications == CommaTokens(formData.medicationNames.v)
        rxInRefillRequest ==
            [index \in DOMAIN rxNumbers |->
                [RxNumber |-> rxNumbers[index],
                 MedicationName |-> MedicationAt(medications, index)]]
    IN  [userName |-> username,
         APIKey |-> apiKey,
         PharmacyNumber |-> pharmacyNumber,
         LastName |-> JText(LastNameOf(formData.patientName.v)),
         DOB |-> formData.dob,
         Phone |-> JText(formatPhoneForBestRX(formData.phone.v)),
         DeliveryOption |-> Or(formData.preferredService, JStr("Pickup")),
         RxInRefillRequest |-> rxInRefillRequest]

\* an instant of the system clock: its date and time in UTC and its date
\* in the local time zone
Instant(utcDate, utcTime, localDate) ==
    [utcDate |-> utcDate, utcTime |-> utcTime, localDate |-> localDate]

\* date.toISOString(): YYYY-MM-DDTHH:mm:ss.sssZ
toISOString(now) == now.utcDate \o <<"T">> \o now.utcTime \o <<"Z">>

\* variant of buildTransferRequestPayload: the local calendar date is stamped
buildTransferRequestPayloadLocalDate(formData, pharmacyNumber, now) ==
    [PharmacyNumber |-> pharmacyNumber,
     RxNo |-> formData.rxNumber,
     RxFillDate |-> formData.rxFillDate,
     TransferToPharmacy |->
        [Name |-> formData.transferToPharmacyName,
         Address |-> formData.transferToPharmacyAddress1,
         Address2 |-> Or(formData.transferToPharmacyAddress2, JStr("")),
         City |-> formData.transferToPharmacyCity,
         State |-> formData.transferToPharmacyState,
         Zip |-> formData.transferToPharmacyZip,
         Phone |-> JText(formatPhoneForBestRX(formData.transferToPharmacyPhone.v)),
         NCPDP |-> Or(formData.transferToPharmacyNCPDP, JStr(""))],
     TransferDate |-> JText(now.localDate),
     Comments |-> Or(formData.transferRxRemark, JStr(""))]

\* `now` is what new Date() reads from the system clock
buildTransferRequestPayload(formData, pharmacyNumber, now) ==
    LET transferDate == Split(toISOString(now), "T")[1]
    IN  [PharmacyNumber |-> pharmacyNumber,
         RxNo |-> formData.rxNumber,
         RxFillDate |-> formData.rxFillDate,
         TransferToPharmacy |->
            [Name |-> formData.transferToPharmacyName,
             Address |-> formData.transferToPharmacyAddress1,
             Address2 |-> Or(formData.transferToPharmacyAddress2, JStr("")),
             City |-> formData.transferToPharmacyCity,
             State |-> formData.transferToPharmacyState,
             Zip |-> formData.transferToPharmacyZip,
             Phone |-> JText(formatPhoneForBestRX(formData.transferToPharmacyPhone.v)),
             NCPDP |-> Or(formData.transferToPharmacyNCPDP, JStr(""))],
         TransferDate |-> JText(transferDate),
         Comments |-> Or(formData.transferRxRemark, JStr(""))]

----------------------------------------------------------------------------
(* Error messages *)

BESTRX_ERROR_CODES ==
    ("ERROR_INVALID_PHARMACY" :> "Invalid pharmacy number. Please verify your pharmacy details.") @@
    ("ERROR_INVALID_PATIENT" :> "Patient information not found. Please verify your name and date of birth.") @@
    ("ERROR_RX_NOT_FOUND" :> "One or more prescription numbers were not found. Please verify the numbers.") @@
    ("ERROR_RX_INACTIVE" :> "One or more prescriptions are no longer active. Please contact us for assistance.") @@
    ("ERROR_RX_REFILLED" :> "One or more prescriptions have already been refilled recently.") @@
    ("ERROR_GENERIC" :> "An error occurred while processing your request. Please try again.") @@
    ("ERROR0027" :> "Prescription not found. Please verify the prescription number.") @@
    ("ERROR0069" :> "Prescription cannot be transferred. Please contact the pharmacy.") @@
    ("ERROR0070" :> "Invalid destination pharmacy information.") @@
    ("ERROR0080" :> "Patient not found in system.") @@
    ("ERROR0003" :> "Patient date of birth does not match.") @@
    ("ERROR0082" :> "Transfer limit exceeded. Please try again later.")

MSG_400 == "Invalid request. Please check your information and try again."
MSG_403 == "Authentication failed. Please contact support."
MSG_500 == "Service temporarily unavailable. Please try again later."
MSG_NOT_CONFIGURED == "Pharmacy service is not properly configured. Please contact support."
MSG_UNABLE_TO_CONNECT == "Unable to connect to pharmacy service. Please try again later."
MSG_UNABLE_REFILL == "Unable to process refill request. Please try again."
MSG_UNABLE_TRANSFER == "Unable to process transfer request. Please try again."
MSG_REFILL_OK == "Refill request submitted successfully"
MSG_TRANSFER_OK == "Transfer request submitted successfully"

\* BESTRX_ERROR_CODES is a plain object literal: a key it does not define
\* itself is looked up on Object.prototype
ObjectPrototypeMembers ==
    ("constructor" :> "function Object() { [native code] }") @@
    ("toString" :> "function toString() { [native code] }")

\* BESTRX_ERROR_CODES[key]
ErrorCodeLookup(key) ==
    IF key \in DOMAIN BESTRX_ERROR_CODES THEN JStr(BESTRX_ERROR_CODES[key])
    ELSE IF key \in DOMAIN ObjectPrototypeMembers THEN JFun(ObjectPrototypeMembers[key])
    ELSE JUndef

\* the absent optional httpStatus argument
NoStatus == 0

\* variant of mapBestRXError: the `|| BESTRX_ERROR_CODES['ERROR_GENERIC']` is left out
mapBestRXErrorNoFallback(errorCode, httpStatus) ==
    IF ~Truthy(errorCode)
    THEN CASE httpStatus = 400 -> JStr(MSG_400)
           [] httpStatus = 403 -> JStr(MSG_403)
           [] httpStatus = 500 -> JStr(MSG_500)
           [] OTHER -> JStr(BESTRX_ERROR_CODES["ERROR_GENERIC"])
    ELSE ErrorCodeLookup(String(errorCode))

mapBestRXError(errorCode, httpStatus) ==
    IF ~Truthy(errorCode)
    THEN CASE httpStatus = 400 -> JStr(MSG_400)
           [] httpStatus = 403 -> JStr(MSG_403)
           [] httpStatus = 500 -> JStr(MSG_500)
           [] OTHER -> JStr(BESTRX_ERROR_CODES["ERROR_GENERIC"])
    ELSE Or(ErrorCodeLookup(String(errorCode)), JStr(BESTRX_ERROR_CODES["ERROR_GENERIC"]))

----------------------------------------------------------------------------
(* Response bodies: the untrusted JSON value returned by response.json() *)

\* one element of RxInRefillResponse
Entry(t, st, code, msg) == [t |-> t, Status |-> st, ErrorCode |-> code, ErrorMessage |-> msg]

\* a field that may hold an array
Arr(t, items) == [t |-> t, items |-> items]

Body(t, arr, valid, transferred, code, msg) ==
    [t |-> t, RxInRefillResponse |-> arr, IsValid |-> valid,
     RxTransferred |-> transferred, ErrorCode |-> code, ErrorMessage |-> msg]

\* text that only the upstream service could have written
UPSTREAM_TEXT == "ORA-00942: rx_refill lookup failed"

ErrorCodeValues ==
    {JUndef, JStr("ERROR_RX_NOT_FOUND"), JStr("ERROR0027"), JStr("ERROR_UNMAPPED"), JStr("constructor")}

ErrorMessageValues == {JUndef, JStr(UPSTREAM_TEXT)}

Entries ==
    {Entry("object", st, code, msg) :
        st \in {JStr("OK"), JStr("ERROR")}, code \in ErrorCodeValues \ {JStr("ERROR0027")},
        msg \in ErrorMessageValues}
    \cup {Entry("object", JUndef, JUndef, JUndef), Entry("null", JUndef, JUndef, JUndef)}

SeqsUpTo(S, n) == UNION {[1..k -> S] : k \in 0..n}

NoArr == Arr("undefined", <<>>)

RefillBodies ==
    {Body("object", Arr("array", items), JUndef, JUndef, JUndef, JUndef) :
        items \in SeqsUpTo(Entries, MaxItems)}
    \cup {Body("object", NoArr, JUndef, JUndef, JUndef, JUndef),
          Body("object", Arr("string", <<>>), JUndef, JUndef, JUndef, JUndef),
          Body("null", NoArr, JUndef, JUndef, JUndef, JUndef),
          Body("string", NoArr, JUndef, JUndef, JUndef, JUndef)}

FlagValues == {JBool(TRUE), JBool(FALSE), JUndef, JStr("true")}

TransferBodies ==
    {Body("object", NoArr, valid, transferred, code, msg) :
        valid \in FlagValues, transferred \in FlagValues,
        code \in ErrorCodeValues \ {JStr("ERROR_RX_NOT_FOUND")}, msg \in ErrorMessageValues}
    \cup {Body("null", NoArr, JUndef, JUndef, JUndef, JUndef),
          Body("string", NoArr, JUndef, JUndef, JUndef, JUndef)}

\* !response || typeof response !== 'object'
NotAnObject(body) == body.t # "object"

\* variant of validateRefillResponse: `every` in place of `some`
validateRefillResponseEvery(body) ==
    IF NotAnObject(body) THEN FALSE
    ELSE LET rxResponses == body.RxInRefillResponse
         IN  IF rxResponses.t # "array" THEN FALSE
             ELSE \A i \in DOMAIN rxResponses.items :
                     /\ rxResponses.items[i].t = "object"
                     /\ rxResponses.items[i].Status = JStr("OK")

validateRefillResponse(body) ==
    IF NotAnObject(body) THEN FALSE
    ELSE LET rxResponses == body.RxInRefillResponse
         IN  IF rxResponses.t # "array" THEN FALSE
             ELSE \E i \in DOMAIN rxResponses.items :
                     /\ rxResponses.items[i].t = "object"
                     /\ rxResponses.items[i].Status = JStr("OK")

\* variant of validateTransferResponse: the flags are tested for truthiness
validateTransferResponseTruthy(body) ==
    IF NotAnObject(body) THEN FALSE
    ELSE Truthy(body.IsValid) /\ Truthy(body.RxTransferred)

validateTransferResponse(body) ==
    IF NotAnObject(body) THEN FALSE
    ELSE body.IsValid = JBool(TRUE) /\ body.RxTransferred = JBool(TRUE)

\* indices of the entries rxResponses.find's predicate accepts
NotOkIndices(items) ==
    {i \in DOMAIN items : items[i].t = "object" /\ items[i].Status # JStr("OK")}

\* variant of extractRefillErrorMessage: the raw message is preferred to the code
extractRefillErrorMessageRawFirst(body) ==
    IF NotAnObject(body) THEN JNull
    ELSE LET rxResponses == body.RxInRefillResponse
         IN  IF rxResponses.t = "array" /\ Len(rxResponses.items) > 0
                  /\ NotOkIndices(rxResponses.items) # {}
             THEN LET first == CHOOSE i \in NotOkIndices(rxResponses.items) :
                                  \A j \in NotOkIndices(rxResponses.items) : i <= j
                      firstError == rxResponses.items[first]
                  IN  IF Truthy(firstError.ErrorMessage)
                      THEN JStr(String(firstError.ErrorMessage))
                      ELSE IF Truthy(firstError.ErrorCode)
                      THEN mapBestRXError(JStr(String(firstError.ErrorCode)), NoStatus)
                      ELSE JNull
             ELSE JNull

\* variant of extractRefillErrorMessage: it ends as extractTransferErrorMessage
\* does, with the generic message instead of null
extractRefillErrorMessageGeneric(body) ==
    IF NotAnObject(body) THEN JNull
    ELSE LET rxResponses == body.RxInRefillResponse
         IN  IF rxResponses.t = "array" /\ Len(rxResponses.items) > 0
                  /\ NotOkIndices(rxResponses.items) # {}
             THEN LET first == CHOOSE i \in NotOkIndices(rxResponses.items) :
                                  \A j \in NotOkIndices(rxResponses.items) : i <= j
                      firstError == rxResponses.items[first]
                  IN  IF Truthy(firstError.ErrorCode)
                      THEN mapBestRXError(JStr(String(firstError.ErrorCode)), NoStatus)
                      ELSE IF Truthy(firstError.ErrorMessage)
                      THEN JStr(String(firstError.ErrorMessage))
                      ELSE mapBestRXError(JUndef, NoStatus)
             ELSE mapBestRXError(JUndef, NoStatus)

extractRefillErrorMessage(body) ==
    IF NotAnObject(body) THEN JNull
    ELSE LET rxResponses == body.RxInRefillResponse
         IN  IF rxResponses.t = "array" /\ Len(rxResponses.items) > 0
                  /\ NotOkIndices(rxResponses.items) # {}
             THEN LET first == CHOOSE i \in NotOkIndices(rxResponses.items) :
                                  \A j \in NotOkIndices(rxResponses.items) : i <= j
                      firstError == rxResponses.items[first]
                  IN  IF Truthy(firstError.ErrorCode)
                      THEN mapBestRXError(JStr(String(firstError.ErrorCode)), NoStatus)
                      ELSE IF Truthy(firstError.ErrorMessage)
                      THEN JStr(String(firstError.ErrorMessage))
                      ELSE JNull
             ELSE JNull

extractTransferErrorMessage(body) ==
    IF NotAnObject(body) THEN JNull
    ELSE IF Truthy(body.ErrorCode) THEN mapBestRXError(body.ErrorCode, NoStatus)
    ELSE IF Truthy(body.ErrorMessage) THEN body.ErrorMessage
    ELSE mapBestRXError(JUndef, NoStatus)

----------------------------------------------------------------------------
(* The primary call *)

HttpStatuses == {200, 400, 403, 404, 500}

\* what `await fetch(...)` followed by `await response.json()` can produce
Response(kind, st, body) == [kind |-> kind, status |-> st, body |-> body]

NoBody == Body("null", NoArr, JUndef, JUndef, JUndef, JUndef)
NoResponse == Response("none", NoStatus, NoBody)

Responses(bodies) ==
    {Response("network_error", NoStatus, NoBody)}
    \cup {Response("invalid_json", st, NoBody) : st \in HttpStatuses}
    \cup {Response("json", st, body) : st \in HttpStatuses, body \in bodies}

\* how the refill call and the transfer call can end
RefillResponses == Responses(RefillBodies)
TransferResponses == Responses(TransferBodies)

\* response.ok
Ok(st) == st >= 200 /\ st <= 299

\* { success, message, data? }
Result(success, message, d) == [success |-> success, message |-> message, data |-> d]

NoResult == Result(FALSE, JUndef, <<>>)

\* variant of Threw: response.json() is awaited outside the try block
ThrewInFetchOnly(resp) == resp.kind = "network_error"

\* the catch block of submitRefillToBestRX / submitTransferToBestRX
Threw(resp) == resp.kind \in {"network_error", "invalid_json"}

\* variant of submitRefillToBestRX: the catch block returns the exception's text
submitRefillToBestRXRawError(resp) ==
    IF Threw(resp)
    THEN Result(FALSE, JStr("TypeError: Failed to fetch"), <<>>)
    ELSE IF ~Ok(resp.status)
    THEN Result(FALSE, Or(extractRefillErrorMessage(resp.body),
                          mapBestRXError(JUndef, resp.status)), <<>>)
    ELSE IF ~validateRefillResponse(resp.body)
    THEN Result(FALSE, Or(extractRefillErrorMessage(resp.body), JStr(MSG_UNABLE_REFILL)), <<>>)
    ELSE Result(TRUE, JStr(MSG_REFILL_OK), <<resp.body>>)

\* variant of submitRefillToBestRX: a body that fails validation is answered
\* like an error status
submitRefillToBestRXStatusMapped(resp) ==
    IF Threw(resp)
    THEN Result(FALSE, JStr(MSG_UNABLE_TO_CONNECT), <<>>)
    ELSE IF ~Ok(resp.status)
    THEN Result(FALSE, Or(extractRefillErrorMessage(resp.body),
                          mapBestRXError(JUndef, resp.status)), <<>>)
    ELSE IF ~validateRefillResponse(resp.body)
    THEN Result(FALSE, Or(extractRefillErrorMessage(resp.body),
                          mapBestRXError(JUndef, resp.status)), <<>>)
    ELSE Result(TRUE, JStr(MSG_REFILL_OK), <<resp.body>>)

submitRefillToBestRX(resp) ==
    IF Threw(resp)
    THEN Result(FALSE, JStr(MSG_UNABLE_TO_CONNECT), <<>>)
    ELSE IF ~Ok(resp.status)
    THEN Result(FALSE, Or(extractRefillErrorMessage(resp.body),
                          mapBestRXError(JUndef, resp.status)), <<>>)
    ELSE IF ~validateRefillResponse(resp.body)
    THEN Result(FALSE, Or(extractRefillErrorMessage(resp.body), JStr(MSG_UNABLE_REFILL)), <<>>)
    ELSE Result(TRUE, JStr(MSG_REFILL_OK), <<resp.body>>)

submitTransferToBestRX(resp) ==
    IF Threw(resp)
    THEN Result(FALSE, JStr(MSG_UNABLE_TO_CONNECT), <<>>)
    ELSE IF ~Ok(resp.status)
    THEN Result(FALSE, Or(extractTransferErrorMessage(resp.body),
                          mapBestRXError(JUndef, resp.status)), <<>>)
    ELSE IF ~validateTransferResponse(resp.body)
    THEN Result(FALSE, Or(extractTransferErrorMessage(resp.body), JStr(MSG_UNABLE_TRANSFER)), <<>>)
    ELSE Result(TRUE, JStr(MSG_TRANSFER_OK), <<resp.body>>)

----------------------------------------------------------------------------
(* Configuration and forms *)

Env(username, apiKey, password, pharmacyNumber) ==
    [BESTRX_USERNAME |-> username, BESTRX_API_KEY |-> apiKey,
     BESTRX_PASSWORD |-> password, BESTRX_PHARMACY_NUMBER |-> pharmacyNumber]

FullEnv == Env(JStr("ewrx"), JStr("key-1"), JStr("pw-1"), JStr("4471"))

\* every credential set, one credential absent or empty, or none set at all
Envs ==
    {FullEnv, Env(JUndef, JUndef, JUndef, JUndef)}
    \cup {[FullEnv EXCEPT ![k] = x] : k \in DOMAIN FullEnv, x \in {JUndef, JStr("")}}

\* "(614) 555-1234"
EXAMPLE_PHONE == <<"(", "6", "1", "4", ")", " ", "5", "5", "5", "-", "1", "2", "3", "4">>

RefillForm(email, notes, service, consent) ==
    [patientName |-> JText(<<"A", "d", "a", " ", "L", "o", "v", "e", "l", "a", "c", "e">>),
     dob |-> JText(<<"1", "9", "9", "0", "-", "1", "2", "-", "1", "0">>),
     phone |-> JText(EXAMPLE_PHONE), email |-> email,
     prescriptionNumbers |-> JText(<<"1", "1", "1", ",", " ", "2", "2", "2">>),
     medicationNames |-> JText(<<"D", "r", "u", "g", " ", "A">>),
     preferredService |-> service, notes |-> notes, consent |-> consent]

RefillForms ==
    {RefillForm(JStr("ada@example.com"), JStr("call first"), JStr("delivery"), JBool(TRUE)),
     RefillForm(JStr(""), JUndef, JStr("pickup"), JBool(TRUE))}

TransferForm(address2, ncpdp, remark) ==
    [rxNumber |-> JStr("RX-77"),
     rxFillDate |-> JText(<<"2", "0", "2", "5", "-", "0", "1", "-", "3", "1">>),
     transferToPharmacyName |-> JStr("Main St Pharmacy"),
     transferToPharmacyAddress1 |-> JStr("1 Main St"),
     transferToPharmacyAddress2 |-> address2,
     transferToPharmacyCity |-> JStr("Columbus"),
     transferToPharmacyState |-> JText(<<"O", "H">>),
     transferToPharmacyZip |-> JText(<<"4", "3", "0", "0", "4">>),
     transferToPharmacyPhone |-> JText(<<"6", "1", "4", "-", "5", "5", "5", "-", "0", "0", "0", "0">>),
     transferToPharmacyNCPDP |-> ncpdp,
     transferRxRemark |-> remark, consent |-> JBool(TRUE)]

TransferForms ==
    {TransferForm(JStr("Suite 2"), JStr("1234567"), JStr("urgent")),
     TransferForm(JUndef, JStr(""), JUndef)}

ContactForm(reason, consent) ==
    [name |-> JStr("Ada Lovelace"), phone |-> JText(EXAMPLE_PHONE),
     email |-> JStr("ada@example.com"), reason |-> reason,
     message |-> JStr("Do you compound?"), consent |-> consent]

ContactForms == {ContactForm(JStr("general"), JBool(TRUE))}

\* the hooks whose primary operation is a BestRX call
BestRXHooks == {"refill", "transfer"}

Forms(h) ==
    CASE h = "refill" -> RefillForms
      [] h = "transfer" -> TransferForms
      [] h = "contact" -> ContactForms

\* variant of RefillCredentialsMissing: the API key is not checked
RefillCredentialsMissingNoKey(e) ==
    \/ ~Truthy(e.BESTRX_USERNAME)
    \/ ~Truthy(e.BESTRX_PHARMACY_NUMBER)

\* if (!username || !apiKey || !pharmacyNumber)
RefillCredentialsMissing(e) ==
    \/ ~Truthy(e.BESTRX_USERNAME)
    \/ ~Truthy(e.BESTRX_API_KEY)
    \/ ~Truthy(e.BESTRX_PHARMACY_NUMBER)

\* if (!username || !password || !pharmacyNumber)
TransferCredentialsMissing(e) ==
    \/ ~Truthy(e.BESTRX_USERNAME)
    \/ ~Truthy(e.BESTRX_PASSWORD)
    \/ ~Truthy(e.BESTRX_PHARMACY_NUMBER)

CredentialsMissing(h, e) ==
    IF h = "refill" THEN RefillCredentialsMissing(e) ELSE TransferCredentialsMissing(e)

\* the argument object of supabase.rpc("submit_refill_request", ...)
RefillAuditArgs(d) ==
    [p_patient_name |-> d.patientName, p_dob |-> d.dob, p_phone |-> d.phone,
     p_email |-> Or(d.email, JStr("")),
     p_prescription_numbers |-> d.prescriptionNumbers,
     p_medication_names |-> d.medicationNames,
     p_preferred_service |-> d.preferredService,
     p_notes |-> Or(d.notes, JStr("")), p_consent |-> d.consent]

\* the argument object of supabase.rpc("submit_transfer_request", ...)
TransferAuditArgs(d) ==
    [p_rx_number |-> d.rxNumber, p_rx_fill_date |-> d.rxFillDate,
     p_transfer_to_pharmacy_name |-> d.transferToPharmacyName,
     p_transfer_to_pharmacy_address1 |-> d.transferToPharmacyAddress1,
     p_transfer_to_pharmacy_address2 |-> Or(d.transferToPharmacyAddress2, JStr("")),
     p_transfer_to_pharmacy_city |-> d.transferToPharmacyCity,
     p_transfer_to_pharmacy_state |-> d.transferToPharmacyState,
     p_transfer_to_pharmacy_zip |-> d.transferToPharmacyZip,
     p_transfer_to_pharmacy_phone |-> d.transferToPharmacyPhone,
     p_transfer_to_pharmacy_ncpdp |-> Or(d.transferToPharmacyNCPDP, JStr("")),
     p_transfer_rx_remark |-> Or(d.transferRxRemark, JStr("")), p_consent |-> d.consent]

AuditArgs(h, d) == IF h = "refill" THEN RefillAuditArgs(d) ELSE TransferAuditArgs(d)

----------------------------------------------------------------------------
(* The submission hooks: useRefillFormSubmission, useTransferFormSubmission *)

Promise(state, message, d) == [state |-> state, message |-> message, data |-> d]

NoPromise == Promise("none", "", <<>>)

LOG_PRIMARY == "console.error: BestRX Error"
LOG_AUDIT == "console.warn: Failed to save request to database"

\* a call of an exported function: its name, its arguments, its return value
\* the modal after its first render with isOpen = false: the useState
\* initial values, and the reset that the effect schedules on mount
ModalMounted ==
    /\ isOpen = FALSE
    /\ modalForm = "empty"
    /\ modalStatus = "idle"
    /\ errors = FALSE
    /\ errorMessage = JNull
    /\ timers = 1
    /\ invocations = <<>>
    /\ setBy = 0

Call(fn, args, out) == [fn |-> fn, args |-> args, out |-> out]

NoCall == Call("none", <<>>, JUndef)

Init ==
    /\ hook \in BestRXHooks \cup {"contact"}
    /\ env \in Envs
    /\ status = "idle"
    /\ error = JNull
    /\ pc = "ready"
    /\ data = <<>>
    /\ response = NoResponse
    /\ result = NoResult
    /\ primaryCalls = 0
    /\ auditCalls = 0
    /\ auditArgs = <<>>
    /\ auditOutcome = "none"
    /\ promise = NoPromise
    /\ log = {}
    /\ submits = 0
    /\ call = NoCall
    /\ ModalMounted

\* variant of Catch: the catch block rethrows without setStatus("error")
CatchWithoutStatus(message) ==
    /\ error' = JStr(message)
    /\ status' = status
    /\ promise' = Promise("rejected", message, <<>>)
    /\ pc' = "ready"

\* the outer catch block: setError(errorMessage); setStatus("error"); throw err
Catch(message) ==
    /\ error' = JStr(message)
    /\ status' = "error"
    /\ promise' = Promise("rejected", message, <<>>)
    /\ pc' = "ready"

\* submit(data) is called: setStatus("submitting"); setError(null)
Submit ==
    /\ pc = "ready"
    /\ submits < MaxSubmits
    /\ \E d \in Forms(hook) : data' = <<d>>
    /\ status' = "submitting"
    /\ error' = JNull
    /\ pc' = IF hook \in BestRXHooks THEN "credentials" ELSE "rpc"
    /\ response' = NoResponse
    /\ result' = NoResult
    /\ primaryCalls' = 0
    /\ auditCalls' = 0
    /\ auditArgs' = <<>>
    /\ auditOutcome' = "none"
    /\ promise' = Promise("pending", "", <<>>)
    /\ log' = {}
    /\ submits' = submits + 1
    /\ UNCHANGED <<hook, env, call, modalVars>>

\* the credentials are read from process.env and checked
CheckCredentials ==
    /\ pc = "credentials"
    /\ IF CredentialsMissing(hook, env)
       THEN Catch(MSG_NOT_CONFIGURED)
       ELSE /\ pc' = "primary"
            /\ UNCHANGED <<status, error, promise>>
    /\ UNCHANGED <<hook, env, data, response, result, primaryCalls, auditCalls,
                   auditArgs, auditOutcome, log, submits, call, modalVars>>

\* the payload is built and fetch(BESTRX_ENDPOINTS...) is issued
IssuePrimary ==
    /\ pc = "primary"
    /\ primaryCalls' = primaryCalls + 1
    /\ pc' = "awaitPrimary"
    /\ UNCHANGED <<hook, env, status, error, data, response, result, auditCalls,
                   auditArgs, auditOutcome, promise, log, submits, call, modalVars>>

\* fetch and response.json() settle; submit...ToBestRX returns its result
PrimaryReturns ==
    /\ pc = "awaitPrimary"
    /\ response' \in (IF hook = "refill" THEN RefillResponses ELSE TransferResponses)
    /\ result' = IF hook = "refill" THEN submitRefillToBestRX(response')
                                    ELSE submitTransferToBestRX(response')
    /\ log' = IF Threw(response') THEN log \cup {LOG_PRIMARY} ELSE log
    /\ pc' = "result"
    /\ UNCHANGED <<hook, env, status, error, data, primaryCalls, auditCalls,
                   auditArgs, auditOutcome, promise, submits, call, modalVars>>

\* variant of HandleResult: result.success is not looked at
HandleResultUnchecked ==
    /\ pc = "result"
    /\ pc' = "audit"
    /\ response' = NoResponse
    /\ UNCHANGED <<hook, env, status, error, promise, data, result, primaryCalls,
                   auditCalls, auditArgs, auditOutcome, log, submits, call, modalVars>>

\* variant of HandleResult: a failed primary call is issued once more
HandleResultRetry ==
    /\ pc = "result"
    /\ IF ~result.success
       THEN IF primaryCalls < 2
            THEN pc' = "primary" /\ UNCHANGED <<status, error, promise>>
            ELSE Catch(String(result.message))
       ELSE /\ pc' = "audit"
            /\ UNCHANGED <<status, error, promise>>
    /\ response' = NoResponse
    /\ UNCHANGED <<hook, env, data, result, primaryCalls, auditCalls, auditArgs,
                   auditOutcome, log, submits, call, modalVars>>

\* variant of HandleResult: a failed result is returned, not thrown
HandleResultReturnsFailure ==
    /\ pc = "result"
    /\ IF ~result.success
       THEN /\ pc' = "ready"
            /\ promise' = Promise("resolved", "", <<>>)
            /\ UNCHANGED <<status, error>>
       ELSE /\ pc' = "audit"
            /\ UNCHANGED <<status, error, promise>>
    /\ response' = NoResponse
    /\ UNCHANGED <<hook, env, data, result, primaryCalls, auditCalls, auditArgs,
                   auditOutcome, log, submits, call, modalVars>>

\* if (!result.success) throw new Error(result.message)
HandleResult ==
    /\ pc = "result"
    /\ IF ~result.success
       THEN Catch(String(result.message))
       ELSE /\ pc' = "audit"
            /\ UNCHANGED <<status, error, promise>>
    /\ response' = NoResponse
    /\ UNCHANGED <<hook, env, data, result, primaryCalls, auditCalls, auditArgs,
                   auditOutcome, log, submits, call, modalVars>>

\* supabase.rpc("submit_..._request", {...}) is issued
IssueAudit ==
    /\ pc = "audit"
    /\ auditCalls' = auditCalls + 1
    /\ auditArgs' = <<AuditArgs(hook, data[1])>>
    /\ pc' = "awaitAudit"
    /\ UNCHANGED <<hook, env, status, error, data, response, result, primaryCalls,
                   auditOutcome, promise, log, submits, call, modalVars>>

\* how `await supabase.rpc(...)` can end: { error: null }, { error: {...} }, or a throw
AuditOutcomes == {"ok", "error_value", "throws"}

\* variant of AuditReturns: the audit call has no try/catch of its own
AuditReturnsUncaught ==
    /\ pc = "awaitAudit"
    /\ \E o \in AuditOutcomes :
          /\ auditOutcome' = o
          /\ log' = log
          /\ IF o = "throws"
             THEN Catch("TypeError: Failed to fetch")
             ELSE /\ status' = "success"
                  /\ promise' = Promise("resolved", "", result.data)
                  /\ pc' = "ready"
                  /\ error' = error
    /\ UNCHANGED <<hook, env, data, response, result, primaryCalls,
                   auditCalls, auditArgs, submits, call, modalVars>>

\* the audit RPC settles; setStatus("success"); return result.data
AuditReturns ==
    /\ pc = "awaitAudit"
    /\ \E o \in AuditOutcomes :
          /\ auditOutcome' = o
          /\ log' = IF o = "throws" THEN log \cup {LOG_AUDIT} ELSE log
    /\ status' = "success"
    /\ promise' = Promise("resolved", "", result.data)
    /\ pc' = "ready"
    /\ UNCHANGED <<hook, env, error, data, response, result, primaryCalls,
                   auditCalls, auditArgs, submits, call, modalVars>>

\* what `await supabase.rpc("submit_contact_form", ...)` can do: answer a row
\* id, answer an error value, throw an Error, throw something else
RpcOutcomes == {"ok", "error_value", "throws", "throws_value"}

RPC_ROW_ID == JStr("7d0c")
RPC_ERROR_MESSAGE == "permission denied for function submit_contact_form"
FETCH_ERROR_MESSAGE == "Failed to fetch"
MSG_SUBMISSION_FAILED == "Submission failed"
\* a thrown value that is not an Error
THROWN_VALUE == "timeout"

\* useContactFormSubmission: the RPC settles; rpcError is thrown as an Error,
\* otherwise setStatus("success"); return id
ContactRpcReturns ==
    /\ pc = "rpc"
    /\ hook = "contact"
    /\ \E o \in RpcOutcomes :
          CASE o = "ok" ->
                 /\ status' = "success"
                 /\ promise' = Promise("resolved", "", <<RPC_ROW_ID>>)
                 /\ pc' = "ready"
                 /\ error' = error
            [] o = "error_value" -> Catch(RPC_ERROR_MESSAGE)
            [] o = "throws" -> Catch(FETCH_ERROR_MESSAGE)
            [] o = "throws_value" ->
                 /\ error' = JStr(MSG_SUBMISSION_FAILED)
                 /\ status' = "error"
                 /\ promise' = Promise("rejected", THROWN_VALUE, <<>>)
                 /\ pc' = "ready"
    /\ UNCHANGED <<hook, env, data, response, result, primaryCalls, auditCalls,
                   auditArgs, auditOutcome, log, submits, call, modalVars>>

Next ==
    \/ Submit
    \/ ContactRpcReturns
    \/ CheckCredentials
    \/ IssuePrimary
    \/ PrimaryReturns
    \/ HandleResult
    \/ IssueAudit
    \/ AuditReturns

Spec == Init /\ [][Next]_vars

\* the steps of an invocation under way; pc enables at most one of them
Continue ==
    \/ CheckCredentials
    \/ IssuePrimary
    \/ PrimaryReturns
    \/ HandleResult
    \/ IssueAudit
    \/ AuditReturns
    \/ ContactRpcReturns

\* The event loop runs every continuation of an invocation that is ready to
\* run, and the pending primary call and audit RPC settle; nothing obliges
\* the user to submit again.
Fairness == WF_vars(Continue)

SpecLive == Init /\ [][Next]_vars /\ Fairness

----------------------------------------------------------------------------
(* RefillRequestModal and WaitlistModal with their submission hook. The     *)
(* component stays mounted while isOpen is false (it renders null), so its  *)
(* state and the hook's survive a close. Promise continuations run as       *)
(* microtasks, so a settling submit and the rest of handleSubmit are one    *)
(* step; user events and timer callbacks are steps of their own.            *)

ModalHooks == {"refill", "waitlist"}

InitModal ==
    /\ hook \in ModalHooks
    /\ env = FullEnv
    /\ status = "idle"
    /\ error = JNull
    /\ pc = "ready"
    /\ data = <<>>
    /\ response = NoResponse
    /\ result = NoResult
    /\ primaryCalls = 0
    /\ auditCalls = 0
    /\ auditArgs = <<>>
    /\ auditOutcome = "none"
    /\ promise = NoPromise
    /\ log = {}
    /\ submits = 0
    /\ call = NoCall
    /\ ModalMounted

\* what the modal's actions leave alone of the single-invocation variables
UntouchedByModal ==
    UNCHANGED <<hook, env, pc, data, response, result, primaryCalls, auditCalls,
                auditArgs, auditOutcome, promise, log, call>>

Invocation(at, message) == [pc |-> at, message |-> message]

\* the messages a failing invocation can carry
FailureMessages == {MSG_UNABLE_TO_CONNECT, MSG_500}

\* the parent sets isOpen to true; the effect runs and schedules nothing
Open ==
    /\ ~isOpen
    /\ isOpen' = TRUE
    /\ UNCHANGED <<modalForm, modalStatus, errors, errorMessage, timers, invocations,
                   setBy, status, error, submits>>
    /\ UntouchedByModal

\* onClose: the parent sets isOpen to false; the effect calls
\* setTimeout(reset, 300) and keeps no handle of it
Close ==
    /\ isOpen
    /\ timers < MaxTimers
    /\ isOpen' = FALSE
    /\ timers' = timers + 1
    /\ UNCHANGED <<modalForm, modalStatus, errors, errorMessage, invocations, setBy,
                   status, error, submits>>
    /\ UntouchedByModal

\* 300 ms after a close the timeout callback runs: setFormData(initial);
\* setStatus('idle'); setErrors({}); setErrorMessage(null)
ResetTimerFires ==
    /\ timers > 0
    /\ timers' = timers - 1
    /\ modalForm' = "empty"
    /\ modalStatus' = "idle"
    /\ errors' = FALSE
    /\ errorMessage' = JNull
    /\ UNCHANGED <<isOpen, invocations, setBy, status, error, submits>>
    /\ UntouchedByModal

\* the form is rendered: the modal is open and not showing the success panel
FormRendered == isOpen /\ modalStatus # "success"

\* handleChange: a field is edited; the error of that field is cleared
HandleChange ==
    /\ FormRendered
    /\ modalForm' \in {"invalid", "valid"}
    /\ errors' \in (IF errors THEN {TRUE, FALSE} ELSE {FALSE})
    /\ UNCHANGED <<isOpen, modalStatus, errorMessage, timers, invocations, setBy,
                   status, error, submits>>
    /\ UntouchedByModal

\* the form's submit event (the button is disabled while status is
\* 'submitting'): handleSubmit validates, and for a valid form sets
\* 'submitting' and calls the hook's submit, which sets the hook's status
\* and clears its error before its first await
HandleSubmit ==
    /\ FormRendered
    /\ modalStatus # "submitting"
    /\ IF modalForm # "valid"
       THEN /\ errors' = TRUE
            /\ errorMessage' = IF hook = "refill" THEN JNull ELSE errorMessage
            /\ UNCHANGED <<modalStatus, invocations, status, error, submits>>
       ELSE /\ submits < MaxSubmits
            /\ modalStatus' = "submitting"
            /\ errorMessage' = JNull
            /\ invocations' = Append(invocations,
                                     Invocation(IF hook = "refill" THEN "primary" ELSE "rpc", ""))
            /\ status' = "submitting"
            /\ error' = JNull
            /\ submits' = submits + 1
            /\ UNCHANGED errors
    /\ UNCHANGED <<isOpen, modalForm, timers, setBy>>
    /\ UntouchedByModal

\* the primary call of a refill invocation succeeds; the audit RPC is awaited
PrimarySucceeds ==
    /\ \E i \in DOMAIN invocations :
          /\ invocations[i].pc = "primary"
          /\ invocations' = [invocations EXCEPT ![i].pc = "audit"]
    /\ UNCHANGED <<isOpen, modalForm, modalStatus, errors, errorMessage, timers, setBy,
                   status, error, submits>>
    /\ UntouchedByModal

\* an invocation throws: the hook's catch sets error and status and rethrows,
\* handleSubmit's catch sets the modal's status and errorMessage
InvocationFails ==
    /\ \E i \in DOMAIN invocations, message \in FailureMessages :
          /\ invocations[i].pc \in {"primary", "rpc"}
          /\ invocations' = [invocations EXCEPT ![i] = Invocation("done", message)]
          /\ error' = JStr(message)
          /\ status' = "error"
          /\ setBy' = i
          /\ modalStatus' = "error"
          /\ errorMessage' = JStr(message)
    /\ UNCHANGED <<isOpen, modalForm, errors, timers, submits>>
    /\ UntouchedByModal

\* an invocation returns: the hook sets status 'success'; handleSubmit goes on
\* with setStatus('success'); setErrors({}); setErrorMessage(null)
InvocationSucceeds ==
    /\ \E i \in DOMAIN invocations :
          /\ invocations[i].pc \in {"audit", "rpc"}
          /\ invocations' = [invocations EXCEPT ![i].pc = "done"]
          /\ setBy' = i
    /\ status' = "success"
    /\ modalStatus' = "success"
    /\ errors' = FALSE
    /\ errorMessage' = JNull
    /\ UNCHANGED <<isOpen, modalForm, timers, error, submits>>
    /\ UntouchedByModal

NextModal ==
    \/ Open
    \/ Close
    \/ ResetTimerFires
    \/ HandleChange
    \/ HandleSubmit
    \/ PrimarySucceeds
    \/ InvocationFails
    \/ InvocationSucceeds

SpecModal == InitModal /\ [][NextModal]_vars

----------------------------------------------------------------------------
(* Direct calls of the exported pure functions of src/lib/bestrx.ts: each     *)
(* behaviour makes one call, on arguments drawn from the sets below           *)

InitFn ==
    /\ hook = "refill"
    /\ env = FullEnv
    /\ status = "idle"
    /\ error = JNull
    /\ pc = "ready"
    /\ data = <<>>
    /\ response = NoResponse
    /\ result = NoResult
    /\ primaryCalls = 0
    /\ auditCalls = 0
    /\ auditArgs = <<>>
    /\ auditOutcome = "none"
    /\ promise = NoPromise
    /\ log = {}
    /\ submits = 0
    /\ call = NoCall
    /\ ModalMounted

\* error codes a caller can pass: absent, empty, every table key, other strings
CodeArguments ==
    {JUndef, JStr("")} \cup {JStr(k) : k \in DOMAIN BESTRX_ERROR_CODES}
    \cup {JStr("ERROR_UNMAPPED"), JStr("ERROR0099"), JStr("constructor"), JStr("toString")}

StatusArguments == HttpStatuses \cup {NoStatus}

CallMapBestRXError ==
    /\ call = NoCall
    /\ \E code \in CodeArguments, st \in StatusArguments :
          call' = Call("mapBestRXError", <<code, st>>, mapBestRXError(code, st))
    /\ UNCHANGED <<hookVars, modalVars>>

CallValidateRefillResponse ==
    /\ call = NoCall
    /\ \E body \in RefillBodies :
          call' = Call("validateRefillResponse", <<body>>, validateRefillResponse(body))
    /\ UNCHANGED <<hookVars, modalVars>>

CallValidateTransferResponse ==
    /\ call = NoCall
    /\ \E body \in TransferBodies :
          call' = Call("validateTransferResponse", <<body>>, validateTransferResponse(body))
    /\ UNCHANGED <<hookVars, modalVars>>

\* texts typed into the prescription numbers field
PrescriptionTexts == SeqsUpTo({"1", "2", ",", " ", "\n"}, MaxText)

\* texts typed into the medication names field
MedicationTexts ==
    {<<>>, <<"A">>, <<"A", ",", "B">>, <<" ", "A", " ", ",", ",", " ", "B">>,
     <<"A", ",", "B", ",", "C">>, <<",">>}

\* texts typed into the name field
NameTexts == SeqsUpTo({"A", "b", " ", "\t"}, MaxText)

\* texts typed into a phone field
PhoneTexts == SeqsUpTo({"6", "1", "(", "-", " "}, MaxText) \cup {EXAMPLE_PHONE}

BaseRefillForm == RefillForm(JStr(""), JUndef, JStr("pickup"), JBool(TRUE))

\* the forms buildRefillRequestPayload is applied to
PayloadRefillForms ==
    RefillForms
    \cup {[BaseRefillForm EXCEPT !.preferredService = JStr("")]}
    \cup {[BaseRefillForm EXCEPT !.prescriptionNumbers = JText(rx),
                                 !.medicationNames = JText(med)] :
             rx \in PrescriptionTexts, med \in MedicationTexts}
    \cup {[BaseRefillForm EXCEPT !.patientName = JText(name)] : name \in NameTexts}
    \cup {[BaseRefillForm EXCEPT !.phone = JText(phone)] : phone \in PhoneTexts}

CallFormatPhoneForBestRX ==
    /\ call = NoCall
    /\ \E phone \in PhoneTexts :
          call' = Call("formatPhoneForBestRX", <<phone>>, formatPhoneForBestRX(phone))
    /\ UNCHANGED <<hookVars, modalVars>>

CallBuildRefillRequestPayload ==
    /\ call = NoCall
    /\ \E formData \in PayloadRefillForms :
          call' = Call("buildRefillRequestPayload",
                       <<formData, FullEnv.BESTRX_PHARMACY_NUMBER,
                         FullEnv.BESTRX_API_KEY, FullEnv.BESTRX_USERNAME>>,
                       buildRefillRequestPayload(formData,
                                                 FullEnv.BESTRX_PHARMACY_NUMBER,
                                                 FullEnv.BESTRX_API_KEY,
                                                 FullEnv.BESTRX_USERNAME))
    /\ UNCHANGED <<hookVars, modalVars>>

----------------------------------------------------------------------------
(* Form schemas (src/lib/schemas.ts) and the refill modal's submit handler *)

IsString(j) == j.t \in {"string", "text"}

\* z.string().min(n): strings kept whole are only ever asked for min(1)
MinLength(j, n) ==
    /\ IsString(j)
    /\ IF j.t = "text" THEN Len(j.v) >= n ELSE n = 1 /\ j.v # ""

\* z.string().optional()
OptionalString(j) == j = JUndef \/ IsString(j)

\* phoneSchema: z.string().min(7).max(30)
phoneSchema(j) == j.t = "text" /\ Len(j.v) >= 7 /\ Len(j.v) <= 30

\* the addresses zod's .email() accepts, of those used here
WellFormedEmails == {JStr("ada@example.com")}

emailSchema(j) == j \in WellFormedEmails

\* dateStringSchema: /^\d{4}-\d{2}-\d{2}$/
dateStringSchema(j) ==
    /\ j.t = "text"
    /\ Len(j.v) = 10
    /\ \A i \in 1..10 : IF i \in {5, 8} THEN j.v[i] = "-" ELSE j.v[i] \in Digits

ServicePreferenceSchema(j) == j \in {JStr("pickup"), JStr("delivery")}

\* z.boolean()
IsBoolean(j) == j.t = "boolean"

\* the paths of the issues RefillFormDataSchema.parse raises; none: it returns
RefillFormDataSchema(d) ==
    {path \in DOMAIN d :
        ~CASE path = "patientName" -> MinLength(d.patientName, 1)
           [] path = "dob" -> dateStringSchema(d.dob)
           [] path = "phone" -> phoneSchema(d.phone)
           [] path = "email" -> d.email = JUndef \/ emailSchema(d.email) \/ d.email = JStr("")
           [] path = "prescriptionNumbers" -> MinLength(d.prescriptionNumbers, 1)
           [] path = "medicationNames" -> MinLength(d.medicationNames, 1)
           [] path = "preferredService" -> ServicePreferenceSchema(d.preferredService)
           [] path = "notes" -> OptionalString(d.notes)
           [] path = "consent" -> IsBoolean(d.consent)}

\* the paths of the issues TransferFormDataSchema.parse raises
TransferFormDataSchema(d) ==
    {path \in DOMAIN d :
        ~CASE path = "rxNumber" -> MinLength(d.rxNumber, 1)
           [] path = "rxFillDate" -> dateStringSchema(d.rxFillDate)
           [] path = "transferToPharmacyName" -> MinLength(d.transferToPharmacyName, 1)
           [] path = "transferToPharmacyAddress1" -> MinLength(d.transferToPharmacyAddress1, 1)
           [] path = "transferToPharmacyAddress2" -> OptionalString(d.transferToPharmacyAddress2)
           [] path = "transferToPharmacyCity" -> MinLength(d.transferToPharmacyCity, 1)
           [] path = "transferToPharmacyState" -> MinLength(d.transferToPharmacyState, 2)
           [] path = "transferToPharmacyZip" -> MinLength(d.transferToPharmacyZip, 3)
           [] path = "transferToPharmacyPhone" -> phoneSchema(d.transferToPharmacyPhone)
           [] path = "transferToPharmacyNCPDP" -> OptionalString(d.transferToPharmacyNCPDP)
           [] path = "transferRxRemark" -> OptionalString(d.transferRxRemark)
           [] path = "consent" -> IsBoolean(d.consent)}

\* RefillRequestModal validate(): the keys of the errors object
validate(formData) == RefillFormDataSchema(formData)

\* RefillRequestModal handleSubmit: with validation errors it returns before
\* submit(formData) is invoked
handleSubmit(formData) ==
    LET validationErrors == validate(formData)
    IN  [errors |-> validationErrors, submitted |-> validationErrors = {}]

\* what the refill form can hold when it is submitted
ModalRefillForms ==
    LET filled == RefillForm(JStr("ada@example.com"), JStr("call first"),
                             JStr("delivery"), JBool(TRUE))
    IN  UNION {{[f EXCEPT !.consent = consent] : consent \in {JBool(TRUE), JBool(FALSE)}} :
                 f \in {filled,
                        [filled EXCEPT !.email = JStr("")],
                        [filled EXCEPT !.email = JStr("ada@")],
                        [filled EXCEPT !.patientName = JText(<<>>)],
                        [filled EXCEPT !.dob = JText(<<"1", "2", "/", "1", "0", "/", "1", "9", "9", "0">>)],
                        [filled EXCEPT !.phone = JText(<<"5", "5", "5">>)],
                        [filled EXCEPT !.prescriptionNumbers = JText(<<>>)],
                        [filled EXCEPT !.medicationNames = JText(<<>>)],
                        [filled EXCEPT !.notes = JStr("")]}}

\* the transfer forms the schema is applied to
SchemaTransferForms ==
    LET filled == TransferForm(JStr("Suite 2"), JStr("1234567"), JStr("urgent"))
    IN  UNION {{[f EXCEPT !.consent = consent] : consent \in {JBool(TRUE), JBool(FALSE)}} :
                 f \in {filled,
                        TransferForm(JUndef, JUndef, JUndef),
                        [filled EXCEPT !.rxNumber = JStr("")],
                        [filled EXCEPT !.transferToPharmacyState = JText(<<"O">>)],
                        [filled EXCEPT !.transferToPharmacyZip = JText(<<"4", "3">>)],
                        [filled EXCEPT !.transferToPharmacyPhone = JText(<<"5", "5", "5">>)]}}

Issues(paths) == [issues |-> paths]

CallRefillFormDataSchema ==
    /\ call = NoCall
    /\ \E d \in ModalRefillForms :
          call' = Call("RefillFormDataSchema.parse", <<d>>, Issues(RefillFormDataSchema(d)))
    /\ UNCHANGED <<hookVars, modalVars>>

CallTransferFormDataSchema ==
    /\ call = NoCall
    /\ \E d \in SchemaTransferForms :
          call' = Call("TransferFormDataSchema.parse", <<d>>, Issues(TransferFormDataSchema(d)))
    /\ UNCHANGED <<hookVars, modalVars>>

CallHandleSubmit ==
    /\ call = NoCall
    /\ \E formData \in ModalRefillForms :
          call' = Call("handleSubmit", <<formData>>, handleSubmit(formData))
    /\ UNCHANGED <<hookVars, modalVars>>

BaseTransferForm == TransferForm(JUndef, JStr(""), JUndef)

\* the forms buildTransferRequestPayload is applied to
PayloadTransferForms ==
    TransferForms
    \cup {[BaseTransferForm EXCEPT !.rxFillDate = JText(<<"2", "0", "2", "5", "-", "0", "2", "-", "0", "1">>)]}
    \cup {[BaseTransferForm EXCEPT !.transferToPharmacyPhone = JText(phone)] :
             phone \in PhoneTexts}

\* readings of the system clock: late evening west of Greenwich, midday, and
\* the last millisecond of a day east of Greenwich
Instants ==
    {Instant(<<"2", "0", "2", "5", "-", "0", "2", "-", "0", "1">>, <<"0", "3", ":", "3", "0", ":", "0", "0", ".", "0", "0", "0">>, <<"2", "0", "2", "5", "-", "0", "1", "-", "3", "1">>),
     Instant(<<"2", "0", "2", "5", "-", "0", "1", "-", "3", "1">>, <<"1", "2", ":", "0", "0", ":", "0", "0", ".", "0", "0", "0">>, <<"2", "0", "2", "5", "-", "0", "1", "-", "3", "1">>),
     Instant(<<"2", "0", "2", "6", "-", "1", "1", "-", "0", "6">>, <<"2", "3", ":", "5", "9", ":", "5", "9", ".", "9", "9", "9">>, <<"2", "0", "2", "6", "-", "1", "1", "-", "0", "7">>)}

CallBuildTransferRequestPayload ==
    /\ call = NoCall
    /\ \E formData \in PayloadTransferForms, now \in Instants :
          call' = Call("buildTransferRequestPayload",
                       <<formData, FullEnv.BESTRX_PHARMACY_NUMBER, now>>,
                       buildTransferRequestPayload(formData,
                                                   FullEnv.BESTRX_PHARMACY_NUMBER, now))
    /\ UNCHANGED <<hookVars, modalVars>>

CallExtractRefillErrorMessage ==
    /\ call = NoCall
    /\ \E body \in RefillBodies :
          call' = Call("extractRefillErrorMessage", <<body>>, extractRefillErrorMessage(body))
    /\ UNCHANGED <<hookVars, modalVars>>

CallExtractTransferErrorMessage ==
    /\ call = NoCall
    /\ \E body \in TransferBodies :
          call' = Call("extractTransferErrorMessage", <<body>>,
                       extractTransferErrorMessage(body))
    /\ UNCHANGED <<hookVars, modalVars>>

\* the filled refill form with each prescription numbers text
PrescriptionForms ==
    {[RefillForm(JStr("ada@example.com"), JStr("call first"), JStr("delivery"), JBool(TRUE))
        EXCEPT !.prescriptionNumbers = JText(rx)] : rx \in PrescriptionTexts}

\* the payloads the hook builds when handleSubmit goes on to submit(formData)
PayloadsSent(formData) ==
    IF handleSubmit(formData).submitted
    THEN <<buildRefillRequestPayload(formData, FullEnv.BESTRX_PHARMACY_NUMBER,
                                     FullEnv.BESTRX_API_KEY, FullEnv.BESTRX_USERNAME)>>
    ELSE <<>>

\* the submit event of the refill modal, followed through to the payload
CallHandleSubmitThenBuild ==
    /\ call = NoCall
    /\ \E formData \in PrescriptionForms :
          call' = Call("handleSubmit, submit", <<formData>>,
                       [errors |-> handleSubmit(formData).errors,
                        sent |-> PayloadsSent(formData)])
    /\ UNCHANGED <<hookVars, modalVars>>

NextFn ==
    \/ CallMapBestRXError
    \/ CallValidateRefillResponse
    \/ CallValidateTransferResponse
    \/ CallFormatPhoneForBestRX
    \/ CallBuildRefillRequestPayload
    \/ CallBuildTransferRequestPayload
    \/ CallRefillFormDataSchema
    \/ CallTransferFormDataSchema
    \/ CallHandleSubmit
    \/ CallExtractRefillErrorMessage
    \/ CallExtractTransferErrorMessage
    \/ CallHandleSubmitThenBuild

SpecFn == InitFn /\ [][NextFn]_vars

----------------------------------------------------------------------------
(* Properties of the submission hooks (checked under Spec) *)

\* the credentials each hook requires
RequiredCredentials(h) ==
    CASE h = "refill" -> {"BESTRX_USERNAME", "BESTRX_API_KEY", "BESTRX_PHARMACY_NUMBER"}
      [] h = "transfer" -> {"BESTRX_USERNAME", "BESTRX_PASSWORD", "BESTRX_PHARMACY_NUMBER"}
      [] OTHER -> {}

CredentialAbsent == \E k \in RequiredCredentials(hook) : env[k] \in {JUndef, JStr("")}

Completed == submits > 0 /\ pc = "ready"

\* C1: whenever the primary call succeeds, submit resolves with the primary
\* response body and status becomes 'success', whether the audit RPC
\* succeeds, returns an error value or throws.
AuditNeverAltersPrimarySuccess ==
    /\ (pc = "result" /\ result.success) =>
          (response.kind = "json" /\ result.data = <<response.body>>)
    /\ result.success =>
          (promise.state \in {"pending", "resolved"} /\ status \in {"submitting", "success"})
    /\ auditOutcome \in AuditOutcomes =>
          /\ result.success
          /\ status = "success"
          /\ error = JNull
          /\ promise = Promise("resolved", "", result.data)

ResolvedAfterAuditThrew ==
    auditOutcome = "throws" /\ promise.state = "resolved" /\ status = "success"

\* C2: if a required credential is absent or empty when submit is invoked,
\* submit fails with the 'not properly configured' message and neither the
\* primary HTTP call nor the audit RPC is issued in that invocation.
MissingCredentialFailsFast ==
    (submits > 0 /\ CredentialAbsent) =>
        /\ primaryCalls = 0
        /\ auditCalls = 0
        /\ pc \in {"credentials", "ready"}
        /\ pc = "ready" =>
              /\ promise = Promise("rejected", MSG_NOT_CONFIGURED, <<>>)
              /\ status = "error"
              /\ error = JStr(MSG_NOT_CONFIGURED)

RefillRejectedWithoutApiKey ==
    /\ hook = "refill"
    /\ env.BESTRX_API_KEY \in {JUndef, JStr("")}
    /\ Completed
    /\ promise.message = MSG_NOT_CONFIGURED

\* C3: the audit RPC is issued only after the primary call has returned a
\* result with success = true; after a failed primary call no audit RPC is
\* issued in that invocation.
AuditOnlyAfterPrimarySuccess ==
    /\ auditCalls > 0 => (result.success /\ primaryCalls > 0)
    /\ pc \in {"audit", "awaitAudit"} => result.success
    /\ promise.state = "rejected" => auditCalls = 0

PrimaryFailedWithoutAudit ==
    Completed /\ primaryCalls = 1 /\ promise.state = "rejected" /\ auditCalls = 0

\* C4 as claimed: every invocation issues exactly one primary HTTP call and
\* at most one audit RPC.
ExactlyOnePrimaryCall ==
    (Completed /\ hook \in BestRXHooks) => (primaryCalls = 1 /\ auditCalls <= 1)

\* C4 as amended: every invocation issues at most one primary HTTP call
\* (exactly one when every required credential is set, none otherwise) and
\* at most one audit RPC; neither call is repeated after a failure.
CallsPerInvocation ==
    /\ primaryCalls <= 1
    /\ auditCalls <= 1
    /\ (Completed /\ hook \in BestRXHooks) =>
          primaryCalls = (IF CredentialAbsent THEN 0 ELSE 1)

OnePrimaryOneAudit ==
    Completed /\ primaryCalls = 1 /\ auditCalls = 1

\* C5: if the primary call throws (connection failure, timeout, or a body
\* that is not valid JSON, whatever the HTTP status), submitRefillToBestRX
\* and submitTransferToBestRX return {success: false, message: 'Unable to
\* connect ...'} with no data; what the caller sees is that message.
PrimaryExceptionBecomesConnectFailure ==
    /\ (pc = "result" /\ response.kind \in {"network_error", "invalid_json"}) =>
          result = Result(FALSE, JStr(MSG_UNABLE_TO_CONNECT), <<>>)
    /\ (LOG_PRIMARY \in log /\ promise.state = "rejected") =>
          promise.message = MSG_UNABLE_TO_CONNECT

InvalidJsonOn403 ==
    /\ pc = "result"
    /\ response.kind = "invalid_json"
    /\ response.status = 403
    /\ result.message = JStr(MSG_UNABLE_TO_CONNECT)

\* the primary call of the given hook has just returned this HTTP status with a JSON body
Answered(h, st) ==
    pc = "result" /\ hook = h /\ response.kind = "json" /\ response.status = st

Items(body) == body.RxInRefillResponse.items

\* no ErrorCode anywhere in the body
CarriesNoErrorCode(body) ==
    \/ body.t # "object"
    \/ /\ ~Truthy(body.ErrorCode)
       /\ \A i \in DOMAIN Items(body) : ~Truthy(Items(body)[i].ErrorCode)

IsNotOk(e) == e.t = "object" /\ e.Status # JStr("OK")

\* the first entry of RxInRefillResponse whose Status is not 'OK' has no ErrorMessage
FirstNotOkHasNoMessage(body) ==
    \/ body.t # "object"
    \/ \A i \in DOMAIN Items(body) :
          (IsNotOk(Items(body)[i]) /\ \A j \in 1..(i - 1) : ~IsNotOk(Items(body)[j]))
              => ~Truthy(Items(body)[i].ErrorMessage)

AuthFailed == Result(FALSE, JStr(MSG_403), <<>>)

\* C6 as claimed: HTTP 403 on the refill call with a JSON body that carries
\* no error code gives exactly 'Authentication failed. Please contact support.'
Refill403WithoutCodeIsAuthFailed ==
    (Answered("refill", 403) /\ CarriesNoErrorCode(response.body)) => result = AuthFailed

\* C6 as amended: HTTP 403 on the refill call with a JSON body that carries
\* no error code, and whose first non-OK entry carries no error message,
\* gives exactly 'Authentication failed. Please contact support.'
Refill403WithoutCodeOrMessageIsAuthFailed ==
    (/\ Answered("refill", 403)
     /\ CarriesNoErrorCode(response.body)
     /\ FirstNotOkHasNoMessage(response.body)) => result = AuthFailed

Refill403AuthFailedSeen ==
    /\ Answered("refill", 403)
    /\ response.body.t = "object"
    /\ Len(Items(response.body)) = 2
    /\ IsNotOk(Items(response.body)[1])
    /\ CarriesNoErrorCode(response.body)
    /\ FirstNotOkHasNoMessage(response.body)
    /\ result = AuthFailed

\* C7: HTTP 403 on the transfer call with a JSON body that carries no error
\* code gives exactly 'Authentication failed. Please contact support.'
\* (stated on the bodies that carry no error message either, the empty
\* object among them).
Transfer403WithoutCodeIsAuthFailed ==
    (/\ Answered("transfer", 403)
     /\ CarriesNoErrorCode(response.body)
     /\ ~Truthy(response.body.ErrorMessage)) => result = AuthFailed

\* the value an audit argument has for a form field: `|| ""` on the optional ones
Carried(field) == IF Truthy(field) THEN {field} ELSE {field, JStr("")}

\* C8: on primary success the audit RPC carries every original form field
\* and also the raw response body returned by the primary call.
AuditCarriesFormAndResponse ==
    auditCalls > 0 =>
        /\ \A f \in DOMAIN data[1] :
              \E k \in DOMAIN auditArgs[1] : auditArgs[1][k] \in Carried(data[1][f])
        /\ \E k \in DOMAIN auditArgs[1] : <<auditArgs[1][k]>> = result.data

\* the sentences defined in the code
FixedMessages ==
    {MSG_NOT_CONFIGURED, MSG_UNABLE_TO_CONNECT, MSG_400, MSG_403, MSG_500,
     MSG_UNABLE_REFILL, MSG_UNABLE_TRANSFER}
    \cup {BESTRX_ERROR_CODES[k] : k \in DOMAIN BESTRX_ERROR_CODES}

UncodedMessages(body) ==
    IF body.t # "object" THEN {}
    ELSE {String(Items(body)[i].ErrorMessage) :
             i \in {j \in DOMAIN Items(body) : IsNotOk(Items(body)[j])
                                              /\ ~Truthy(Items(body)[j].ErrorCode)}}
         \cup (IF Truthy(body.ErrorCode) THEN {} ELSE {String(body.ErrorMessage)})

\* the error codes of the body that name an inherited member of the table object
InheritedCodes(body) ==
    IF body.t # "object" THEN {}
    ELSE ({String(Items(body)[i].ErrorCode) : i \in DOMAIN Items(body)}
          \cup {String(body.ErrorCode)}) \cap DOMAIN ObjectPrototypeMembers

UpstreamTexts == {String(m) : m \in ErrorMessageValues}

----------------------------------------------------------------------------
(* Properties of the pure functions (checked under SpecFn) *)

Called(fn) == call.fn = fn

\* a non-empty code that is not a key of BESTRX_ERROR_CODES
UnlistedCode(code) == Truthy(code) /\ String(code) \notin DOMAIN BESTRX_ERROR_CODES

\* the HTTP-status-keyed message
StatusMessage(st) ==
    CASE st = 400 -> JStr(MSG_400)
      [] st = 403 -> JStr(MSG_403)
      [] st = 500 -> JStr(MSG_500)
      [] OTHER -> JStr(BESTRX_ERROR_CODES["ERROR_GENERIC"])

\* C10 as claimed: mapBestRXError with a non-empty code that is not in the
\* table falls back to the HTTP-status-keyed message.
UnlistedCodeFallsBackToStatus ==
    (Called("mapBestRXError") /\ UnlistedCode(call.args[1])) =>
        call.out = StatusMessage(call.args[2])

\* C10 as amended: mapBestRXError with a non-empty code that is not in the
\* table (and is not the name of an Object.prototype member) returns the
\* ERROR_GENERIC text whatever httpStatus is; the HTTP-status-keyed message
\* (distinct for 400, 403 and 500, ERROR_GENERIC otherwise) is returned only
\* when the code is absent or empty.
UnlistedCodeIsGeneric ==
    Called("mapBestRXError") =>
        /\ (UnlistedCode(call.args[1])
            /\ String(call.args[1]) \notin DOMAIN ObjectPrototypeMembers) =>
               call.out = JStr(BESTRX_ERROR_CODES["ERROR_GENERIC"])
        /\ ~Truthy(call.args[1]) => call.out = StatusMessage(call.args[2])

UnlistedCodeWith403Seen ==
    /\ Called("mapBestRXError")
    /\ call.args = <<JStr("ERROR_UNMAPPED"), 403>>
    /\ call.out = JStr(BESTRX_ERROR_CODES["ERROR_GENERIC"])

\* C11: mapBestRXError returns a non-empty string for every combination of
\* code (absent, empty, recognized, unrecognized) and httpStatus (absent,
\* 400, 403, 500, any other value).
MapBestRXErrorReturnsNonEmptyString ==
    Called("mapBestRXError") => (call.out.t = "string" /\ call.out.v # "")

\* C12: validateRefillResponse(body) is true if and only if body is an object
\* whose RxInRefillResponse field is an array with at least one entry whose
\* Status is 'OK': false for a missing field, a non-array, an empty array
\* and an array without OK entry, true for arrays mixing OK and non-OK.
ValidateRefillIsSomeOk ==
    Called("validateRefillResponse") =>
        LET body == call.args[1]
        IN  call.out <=> /\ body.t = "object"
                         /\ body.RxInRefillResponse.t = "array"
                         /\ \E i \in DOMAIN Items(body) : Items(body)[i].Status = JStr("OK")

MixedArrayValidates ==
    /\ Called("validateRefillResponse")
    /\ Len(Items(call.args[1])) = 2
    /\ Items(call.args[1])[1].Status = JStr("ERROR")
    /\ Items(call.args[1])[2].Status = JStr("OK")
    /\ call.out = TRUE

\* a flag that is the boolean true
IsTrue(j) == j.t = "boolean" /\ j.v = "true"

\* C13: validateTransferResponse(body) is true if and only if body is an
\* object whose IsValid and RxTransferred are both the boolean true; a
\* missing, falsy or truthy-but-non-boolean value on either yields false.
ValidateTransferIsBothTrue ==
    Called("validateTransferResponse") =>
        LET body == call.args[1]
        IN  call.out <=> (body.t = "object" /\ IsTrue(body.IsValid) /\ IsTrue(body.RxTransferred))

TruthyNonBooleanFlagRejected ==
    /\ Called("validateTransferResponse")
    /\ call.args[1].IsValid = JStr("true")
    /\ call.args[1].RxTransferred = JBool(TRUE)
    /\ call.out = FALSE

\* the tokens of a text: the maximal runs between separators, each cut down
\* to its first..last non-whitespace character, runs without one left out
Boundaries(text, seps) ==
    {0, Len(text) + 1} \cup {i \in DOMAIN text : text[i] \in seps}

RunEnd(text, seps, b) ==
    CHOOSE e \in Boundaries(text, seps) :
        e > b /\ \A x \in Boundaries(text, seps) : x > b => e <= x

Inked(text, seps, b) ==
    {i \in (b + 1)..(RunEnd(text, seps, b) - 1) : text[i] \notin Whitespace}

KeptRuns(text, seps) ==
    {b \in Boundaries(text, seps) \ {Len(text) + 1} : Inked(text, seps, b) # {}}

Least(S) == CHOOSE x \in S : \A y \in S : x <= y
Greatest(S) == CHOOSE x \in S : \A y \in S : y <= x

TokensOf(text, seps) ==
    LET kept == KeptRuns(text, seps)
    IN  [k \in 1..Cardinality(kept) |->
            LET b == CHOOSE x \in kept : Cardinality({y \in kept : y < x}) = k - 1
            IN  SubSeq(text, Least(Inked(text, seps, b)), Greatest(Inked(text, seps, b)))]

\* C14: RxInRefillRequest is the sequence of the non-empty trimmed
\* comma-separated tokens of prescriptionNumbers in order, each entry carrying
\* the medication token of the same index, or the empty string when there is none
RxEntriesAreCommaTokens ==
    Called("buildRefillRequestPayload") =>
        LET formData == call.args[1]
            rx == TokensOf(formData.prescriptionNumbers.v, {","})
            med == TokensOf(formData.medicationNames.v, {","})
            entries == call.out.RxInRefillRequest
        IN  /\ Len(entries) = Len(rx)
            /\ \A i \in DOMAIN entries :
                  /\ entries[i].RxNumber = rx[i]
                  /\ entries[i].MedicationName =
                        IF i \in DOMAIN med THEN med[i] ELSE <<>>

\* witness for C14: a padded token was trimmed, an empty one dropped, and the
\* second prescription has no medication
TwoPrescriptionsOneMedication ==
    /\ Called("buildRefillRequestPayload")
    /\ call.args[1].prescriptionNumbers.v = <<"1", ",", ",", "2">>
    /\ call.args[1].medicationNames.v = <<"A">>
    /\ Len(call.out.RxInRefillRequest) = 2
    /\ call.out.RxInRefillRequest[2].MedicationName = <<>>

\* the same text with a comma in place of every newline
CommaForm(text) == [i \in DOMAIN text |-> IF text[i] = "\n" THEN "," ELSE text[i]]

\* C15: a prescriptionNumbers text whose numbers are separated by newlines
\* yields the entries that the comma-separated form of the same numbers yields
NewlineSeparatedMatchesCommaSeparated ==
    (/\ Called("buildRefillRequestPayload")
     /\ \A i \in DOMAIN call.args[1].prescriptionNumbers.v :
           call.args[1].prescriptionNumbers.v[i] # ",")
    => LET formData == call.args[1]
           commaForm == [formData EXCEPT !.prescriptionNumbers =
                             JText(CommaForm(formData.prescriptionNumbers.v))]
       IN  call.out.RxInRefillRequest =
               buildRefillRequestPayload(commaForm, call.args[2], call.args[3],
                                         call.args[4]).RxInRefillRequest

\* C16: LastName is the final whitespace-separated token of a patientName
\* that has one (the whole name when it contains no whitespace)
LastNameIsFinalToken ==
    (/\ Called("buildRefillRequestPayload")
     /\ TokensOf(call.args[1].patientName.v, Whitespace) # <<>>)
    => call.out.LastName =
           JText(Pop(TokensOf(call.args[1].patientName.v, Whitespace)))

\* the digit characters of a text, in their order
DigitsOf(text) ==
    LET at == {i \in DOMAIN text : text[i] \in Digits}
    IN  [k \in 1..Cardinality(at) |->
            text[CHOOSE i \in at : Cardinality({j \in at : j < i}) = k - 1]]

\* C17: formatPhoneForBestRX returns the digits of its input in order, a
\* second application changes nothing, and the Phone of the refill payload
\* and of the transfer payload's TransferToPharmacy are its result
PhoneIsDigitsOnly ==
    /\ Called("formatPhoneForBestRX") =>
          /\ call.out = DigitsOf(call.args[1])
          /\ formatPhoneForBestRX(call.out) = call.out
          /\ call.args[1] = EXAMPLE_PHONE =>
                call.out = <<"6", "1", "4", "5", "5", "5", "1", "2", "3", "4">>
    /\ Called("buildRefillRequestPayload") =>
          call.out.Phone = JText(DigitsOf(call.args[1].phone.v))
    /\ Called("buildTransferRequestPayload") =>
          call.out.TransferToPharmacy.Phone =
              JText(DigitsOf(call.args[1].transferToPharmacyPhone.v))

\* witness for C17: the example number was formatted
ExamplePhoneFormatted ==
    /\ Called("formatPhoneForBestRX")
    /\ call.args[1] = EXAMPLE_PHONE
    /\ Len(call.out) = 10

\* an optional field as the payload carries it
OrEmpty(field) == IF Truthy(field) THEN field ELSE JStr("")

\* the transfer payload fields that have neither a default nor a format
CopiedUnchanged(formData, pharmacyNumber, payload) ==
    /\ payload.PharmacyNumber = pharmacyNumber
    /\ payload.RxNo = formData.rxNumber
    /\ payload.RxFillDate = formData.rxFillDate
    /\ payload.TransferToPharmacy.Name = formData.transferToPharmacyName
    /\ payload.TransferToPharmacy.Address = formData.transferToPharmacyAddress1
    /\ payload.TransferToPharmacy.City = formData.transferToPharmacyCity
    /\ payload.TransferToPharmacy.State = formData.transferToPharmacyState
    /\ payload.TransferToPharmacy.Zip = formData.transferToPharmacyZip

\* TransferDate is the UTC date of the clock and the three optional fields
\* default to the empty string
StampedAndDefaulted(formData, now, payload) ==
    /\ payload.TransferDate = JText(now.utcDate)
    /\ payload.TransferToPharmacy.Address2 = OrEmpty(formData.transferToPharmacyAddress2)
    /\ payload.TransferToPharmacy.NCPDP = OrEmpty(formData.transferToPharmacyNCPDP)
    /\ payload.Comments = OrEmpty(formData.transferRxRemark)

\* C18 as stated: TransferDate is the UTC date of the system clock whatever
\* the form holds, Address2, NCPDP and Comments default to the empty string,
\* and every other field, the phone included, is copied unchanged
TransferPayloadCopiesAllOtherFields ==
    Called("buildTransferRequestPayload") =>
        /\ StampedAndDefaulted(call.args[1], call.args[3], call.out)
        /\ CopiedUnchanged(call.args[1], call.args[2], call.out)
        /\ call.out.TransferToPharmacy.Phone = call.args[1].transferToPharmacyPhone

\* C18 amended: as above, but TransferToPharmacy.Phone is the form's phone
\* cut down to its digits
TransferPayloadCopiesAllButPhone ==
    Called("buildTransferRequestPayload") =>
        /\ StampedAndDefaulted(call.args[1], call.args[3], call.out)
        /\ CopiedUnchanged(call.args[1], call.args[2], call.out)
        /\ call.out.TransferToPharmacy.Phone.v =
              SelectSeq(call.args[1].transferToPharmacyPhone.v, IsDigit)

\* witness for C18: built when the UTC date is a day ahead of the local date,
\* which is the form's fill date, from a form without the optional fields
BuiltAcrossMidnightWithoutOptionals ==
    /\ Called("buildTransferRequestPayload")
    /\ call.args[3].utcDate # call.args[3].localDate
    /\ call.args[3].localDate = call.args[1].rxFillDate.v
    /\ call.args[1].transferToPharmacyAddress2 = JUndef
    /\ call.out.TransferToPharmacy.Address2 = JStr("")
    /\ call.out.TransferDate = JText(call.args[3].utcDate)

\* C19: an invocation of submit moves status from whatever it was to
\* 'submitting', and from there once to 'success' or 'error': 'success'
\* exactly when the returned promise resolves, 'error' exactly when it
\* rejects; status never becomes 'idle' again
StatusFollowsPromise ==
    /\ submits = 0 => (status = "idle" /\ promise.state = "none")
    /\ submits > 0 =>
          /\ status \in {"submitting", "success", "error"}
          /\ status = "submitting" <=> promise.state = "pending"
          /\ status = "success" <=> promise.state = "resolved"
          /\ status = "error" <=> promise.state = "rejected"
          /\ pc = "ready" <=> status \in {"success", "error"}

\* witness for C19: a contact submission rejected after an earlier invocation
SecondContactSubmitRejected ==
    hook = "contact" /\ submits = 2 /\ status = "error" /\ promise.state = "rejected"

\* C20: a refill or transfer form whose consent is false is rejected by
\* schema validation, so the refill modal's handler never invokes submit
\* (and with it the primary call) for such a form
ConsentFalseIsRejected ==
    /\ (Called("RefillFormDataSchema.parse") /\ call.args[1].consent = JBool(FALSE)) =>
          call.out.issues # {}
    /\ (Called("TransferFormDataSchema.parse") /\ call.args[1].consent = JBool(FALSE)) =>
          call.out.issues # {}
    /\ (Called("handleSubmit") /\ call.args[1].consent = JBool(FALSE)) =>
          ~call.out.submitted

\* C21: provided the primary call and the audit RPC settle, an invocation
\* of refill or transfer submit completes: status leaves 'submitting' for
\* 'success' or 'error'
SubmitEventuallyCompletes ==
    (hook \in BestRXHooks /\ status = "submitting") ~> (status \in {"success", "error"})

\* witness for C21: a transfer completed although its audit RPC answered an error
TransferCompletedAfterAuditError ==
    /\ hook = "transfer"
    /\ Completed
    /\ auditOutcome = "error_value"
    /\ status = "success"

\* the entries of the body's array that are objects with a Status other than OK
FailedEntries(body) ==
    IF body.t = "object" /\ body.RxInRefillResponse.t = "array"
    THEN {i \in DOMAIN Items(body) :
             Items(body)[i].t = "object" /\ Items(body)[i].Status # JStr("OK")}
    ELSE {}

TransferExtractorFallbackOrder ==
    (Called("extractTransferErrorMessage") /\ call.args[1].t = "object") =>
        call.out =
            IF Truthy(call.args[1].ErrorCode)
            THEN mapBestRXError(call.args[1].ErrorCode, NoStatus)
            ELSE IF Truthy(call.args[1].ErrorMessage)
            THEN call.args[1].ErrorMessage
            ELSE JNull

\* the primary call of hook h has just answered a success status with a JSON
\* body that fails validation and from which no message is extracted
InvalidWithoutMessage(h) ==
    /\ pc = "result"
    /\ hook = h
    /\ response.kind = "json"
    /\ Ok(response.status)
    /\ IF h = "refill"
       THEN ~validateRefillResponse(response.body)
            /\ extractRefillErrorMessage(response.body) = JNull
       ELSE ~validateTransferResponse(response.body)
            /\ extractTransferErrorMessage(response.body) = JNull

\* C24 as stated: such a response is answered with the message that
\* mapBestRXError gives for no code and the response's HTTP status
InvalidWithoutMessageIsStatusMapped ==
    \A h \in BestRXHooks :
        InvalidWithoutMessage(h) =>
            result = Result(FALSE, StatusMessage(response.status), <<>>)

\* C24 amended: such a response is answered with the fixed sentence
\* 'Unable to process refill request ...' or 'Unable to process transfer
\* request ...'
InvalidWithoutMessageIsUnableToProcess ==
    /\ InvalidWithoutMessage("refill") =>
          result = Result(FALSE, JStr(MSG_UNABLE_REFILL), <<>>)
    /\ InvalidWithoutMessage("transfer") =>
          result = Result(FALSE, JStr(MSG_UNABLE_TRANSFER), <<>>)

\* witness for C24: a refill answered 200 with an array of one failed entry
\* that has neither code nor message
Refill200FailedEntryWithoutDetail ==
    /\ InvalidWithoutMessage("refill")
    /\ response.body.t = "object"
    /\ FailedEntries(response.body) = {1}
    /\ result.message = JStr(MSG_UNABLE_REFILL)

\* C25: when the audit RPC has failed, by throwing or by answering an error
\* value, a warning is in the log by the time submit resolves
AuditFailureIsLogged ==
    (promise.state = "resolved" /\ auditOutcome \in {"throws", "error_value"}) =>
        LOG_AUDIT \in log

\* the invocations of submit that have not completed
InFlight == {i \in DOMAIN invocations : invocations[i].pc # "done"}

\* C26: in the refill modal and the waitlist modal at most one submission is
\* in flight at any time, whatever the user does
AtMostOneSubmissionInFlight == Cardinality(InFlight) <= 1

\* C27: with invocations of the hook's submit overlapping, whenever the
\* hook's status is 'success' its error is null, and whenever it is 'error'
\* its error is the message of the invocation that set the status
HookErrorMatchesStatus ==
    /\ status = "success" => error = JNull
    /\ status = "error" => (setBy > 0 /\ error = JStr(invocations[setBy].message))

\* the modal's useState initial values
ModalInitial ==
    /\ modalStatus = "idle"
    /\ modalForm = "empty"
    /\ ~errors
    /\ errorMessage = JNull

\* C28: once the modal is closed and every reset scheduled so far has run,
\* the modal is in its initial state, to be found so when it is next opened
ClosedAndResetIsInitial ==
    (~isOpen /\ timers = 0) => ModalInitial

\* C29: a reset callback that runs while the modal is open clears nothing
ResetOnlyWhileClosed ==
    [][(isOpen /\ timers' < timers) =>
          UNCHANGED <<modalForm, modalStatus, errors, errorMessage>>]_vars

\* C30: a refill form that passes validation is sent with at least one
\* RxInRefillRequest entry; a prescriptionNumbers text of commas and
\* whitespace only is not sent
SentPayloadHasAnEntry ==
    Called("handleSubmit, submit") =>
        \A i \in DOMAIN call.out.sent : call.out.sent[i].RxInRefillRequest # <<>>

====
